---- MODULE Spec2Model ----
(***************************************************************************)
(* Job orchestration and artifact lifecycle of the Docling OCR server:     *)
(* the task registry and its TTL eviction (services/storage.py), the HTTP  *)
(* handlers and the background runner (main.py), and the call the runner   *)
(* makes into the conversion pipeline (services/document_processor.py).    *)
(*                                                                         *)
(* The server is one asyncio event loop.  A handler runs to completion in  *)
(* one step, and so does an eviction pass.  The background runner is       *)
(* followed statement by statement, so that the values the registry holds  *)
(* between its statements are states, and other coroutines may run between *)
(* them.                                                                   *)
(*                                                                         *)
(* Three specifications share the variables.  Spec is the service: uploads,*)
(* runners, queries, eviction passes, the clock.  CleanupSpec follows the  *)
(* cleanup loop through its sleeps and the shutdown that cancels it.       *)
(* PipelineSpec applies DocumentProcessor.process_document on its own,     *)
(* since no runner of the service gets past the call of it.                *)
(***************************************************************************)
EXTENDS Integers, Sequences, FiniteSets

\* ------------------------------------------------------------------ bounds
\* Number of uploads that are accepted (job identifiers that get generated).
MaxJobs == 2
\* Last reading of the clock.
MaxTime == 2
\* Image references in an exported document, and files they refer to.
MaxRefs == 2
MaxImages == 2

\* --------------------------------------------------------------- constants
\* settings.ttl_hours and settings.max_file_size_mb (config.py).
ttl_hours == 24
max_file_size_mb == 50

\* The clock of the model counts days: created_at and now are readings of
\* datetime.now() in that unit, and the TTL is timedelta(hours=ttl_hours).
Ttl == ttl_hours \div 24

\* max_size = settings.max_file_size_mb * 1024 * 1024
max_size == max_file_size_mb * 1024 * 1024

\* Job identifiers: uuid4 values, generated fresh, here in order of creation.
JobIds == 1..MaxJobs

\* TaskStatus (models.py)
PENDING == "pending"
PROCESSING == "processing"
COMPLETED == "completed"
FAILED == "failed"
TaskStatus == {PENDING, PROCESSING, COMPLETED, FAILED}

\* TableFormat (models.py)
TableFormat == {"auto", "markdown", "html"}

\* Python's None; a registry entry without an "error" key reads as None
\* through task_info.get("error").
None == "None"

\* Truth value of a Python string or None, as tested by `if error:`.
Truthy(s) == s # None /\ s # ""

\* The handler's list with ".txt" let through.
allowed_extensions_WithTxt ==
    {".pdf", ".docx", ".doc", ".xlsx", ".xls", ".jpg", ".jpeg", ".png", ".txt"}

\* allowed_extensions of the upload handler.
allowed_extensions == {".pdf", ".docx", ".doc", ".xlsx", ".xls", ".jpg", ".jpeg", ".png"}

\* Suffixes of the file names uploaded in the model: one the handler accepts
\* once it is lowered, one it rejects.
Suffixes == {".PDF", ".txt"}

\* Sizes of the files uploaded in the model: exactly the limit, one byte more.
FileSizes == {max_size, max_size + 1}

\* Path(file.filename).suffix.lower()
Lower(s) ==
    CASE s = ".PDF" -> ".pdf"
      [] s = ".TXT" -> ".txt"
      [] OTHER -> s

\* What writing the upload to temp_file does: it succeeds, open() raises and
\* no file appears, or copyfileobj() raises after open() created the file.
SaveOutcomes == {"saved", "open_raises", "copy_raises"}

VARIABLES
    tasks,            \* StorageManager.tasks: task_id -> {status, created_at, path, error}
    taskDirs,         \* task_ids whose directory storage_path/<id> exists
    zips,             \* task_ids whose archive storage_path/<id>.zip exists
    uploads,          \* task_ids whose temporary upload <id>_upload<ext> exists
    created,          \* how many job identifiers have been generated
    pc,               \* position of each job's background runner
    exc,              \* text of the exception a runner is handling
    now,              \* the clock
    passes,           \* len(tasks_to_remove) of the last two eviction passes run since
                      \* the last creation or clock tick
    response,         \* the last HTTP response
    cleanup_task,     \* the cleanup loop: where it waits, how often it ran a pass, and
                      \* the job whose deletion raised the exception `e` of its last pass
    lifespan,         \* position of the application's lifespan
    pipeline          \* a direct application of DocumentProcessor.process_document

vars == <<tasks, taskDirs, zips, uploads, created, pc, exc, now,
          passes, response, cleanup_task, lifespan, pipeline>>

disk == <<taskDirs, zips, uploads>>
runner == <<pc, exc>>
loop == <<cleanup_task, lifespan>>

\* An HTTP exchange: the request (op, task_id of the path, upload of a POST)
\* and the response (code, detail, and the body's fields).
NoResponse ==
    [op |-> None, task_id |-> 0, upload |-> <<>>, code |-> 0, detail |-> None,
     message |-> <<>>, status |-> None, error |-> None]

\* raise HTTPException(status_code=code, detail=detail)
HTTPException(op, task_id, upload, code, detail) ==
    [op |-> op, task_id |-> task_id, upload |-> upload, code |-> code,
     detail |-> detail, message |-> <<>>, status |-> None, error |-> None]

\* ------------------------------------------------------------ StorageManager

\* create_task that makes the directories and forgets the registry.
create_task_entry_NotRegistered(t, task_id, at) == t

\* self.tasks[task_id] = {...} of create_task
create_task_entry(t, task_id, at) ==
    [i \in DOMAIN t \cup {task_id} |->
        IF i = task_id
        THEN [status |-> PENDING, created_at |-> at, path |-> task_id, error |-> None]
        ELSE t[i]]

\* update_task_status that stores under the id whether it is registered or not.
update_task_status_Creates(t, task_id, status, error) ==
    [i \in DOMAIN t \cup {task_id} |->
        IF i = task_id
        THEN [status |-> status, created_at |-> now, path |-> task_id,
              error |-> IF Truthy(error) THEN error ELSE None]
        ELSE t[i]]

\* update_task_status that stamps the entry with the time of the update.
update_task_status_Restamps(t, task_id, status, error) ==
    IF task_id \in DOMAIN t
    THEN [t EXCEPT ![task_id] =
            [@ EXCEPT !.status = status, !.created_at = now,
                      !.error = IF Truthy(error) THEN error ELSE @]]
    ELSE t

\* update_task_status that writes the status and never the error.
update_task_status_DropsError(t, task_id, status, error) ==
    IF task_id \in DOMAIN t
    THEN [t EXCEPT ![task_id] = [@ EXCEPT !.status = status]]
    ELSE t

\* update_task_status: the registry after the call
update_task_status(t, task_id, status, error) ==
    IF task_id \in DOMAIN t
    THEN [t EXCEPT ![task_id] =
            [@ EXCEPT !.status = status,
                      !.error = IF Truthy(error) THEN error ELSE @]]
    ELSE t

\* get_task_status: self.tasks.get(task_id), as <<entry>> or, for None, <<>>
get_task_status(t, task_id) ==
    IF task_id \in DOMAIN t THEN <<t[task_id]>> ELSE <<>>

\* delete_task that removes the files and leaves the registry entry.
delete_task_entry_Keeps(t, task_id) == t

\* The registry after `if task_id in self.tasks: del self.tasks[task_id]`
delete_task_entry(t, task_id) ==
    [i \in DOMAIN t \ {task_id} |-> t[i]]

\* The scan with created_at <= cutoff_time.
Expired_Inclusive(t, at) ==
    {i \in DOMAIN t : t[i].created_at <= at - Ttl}

\* The ids a scan of self.tasks.items() at time `at` appends to
\* tasks_to_remove: cutoff_time = at - TTL, created_at < cutoff_time.
Expired(t, at) ==
    {i \in DOMAIN t : t[i].created_at < at - Ttl}

\* A set of ids as the list in dict order (insertion order = order of creation).
RECURSIVE InOrder(_)
InOrder(S) ==
    IF S = {} THEN <<>>
    ELSE LET m == CHOOSE x \in S : \A y \in S : x <= y
         IN <<m>> \o InOrder(S \ {m})

\* The last two entries of a list.
LastTwo(q) ==
    IF Len(q) <= 2 THEN q ELSE SubSeq(q, Len(q) - 1, Len(q))

\* The pipeline before DocumentProcessor.process_document is applied: the
\* locals of the call, the files it makes, and how it ended.
NotCalled ==
    [at |-> "not called",
     file_suffix |-> None,        \* file_path.suffix.lower() of the input
     run |-> None,                \* how subprocess.run of the bridge ended
     written |-> FALSE,           \* the tool wrote its output file
     converted_file |-> None,     \* suffix of the bridged file, once returned
     bridged_on_disk |-> FALSE,   \* the bridged file <upload>.docx/.xlsx exists
     converter |-> None,          \* the converter whose convert() was called
     exported |-> FALSE,          \* save_as_markdown wrote document.md
     source |-> <<>>,             \* the image references as exported
     markdown |-> <<>>,           \* the image references of document.md
     artifacts_dir |-> FALSE,     \* output_dir/document_artifacts exists
     artifacts |-> {},            \* the files in it
     images |-> {},               \* the files in output_dir/images
     filename_mapping |-> {},     \* <<old_name, new_name>>
     raising |-> None,            \* the exception on its way out
     result |-> None]             \* "returned", or str(e) of what it raised

Init ==
    /\ tasks = <<>>
    /\ taskDirs = {}
    /\ zips = {}
    /\ uploads = {}
    /\ created = 0
    /\ pc = [j \in JobIds |-> "none"]
    /\ exc = [j \in JobIds |-> None]
    /\ now = 0
    /\ passes = <<>>
    /\ response = NoResponse
    /\ cleanup_task = [at |-> "created", runs |-> 0, must_cancel |-> FALSE, e |-> 0]
    /\ lifespan = "serving"
    /\ pipeline = NotCalled

\* ------------------------------------------------------------ the clock
Tick ==
    /\ now < MaxTime
    /\ now' = now + 1
    /\ passes' = <<>>
    /\ response' = NoResponse
    /\ UNCHANGED <<tasks, disk, created, runner, loop, pipeline>>

\* ------------------------------------------------ POST /documents/process
\* message of the TaskResponse: the text depends on the two form fields.
message(force_ocr, table_format) ==
    <<"Document processing started",
      IF force_ocr THEN " (with force OCR)" ELSE "",
      " - table format: ", table_format>>

\* The whole handler, for an upload of file_size bytes whose name ends in
\* suffix, with the two form fields, and with the outcome of writing the
\* temporary file.
process_document(file_size, suffix, force_ocr, table_format, save) ==
    LET upload == <<file_size, suffix, save>> IN
    IF file_size > max_size
    THEN /\ response' = HTTPException("process", 0, upload, 413, "File too large")
         /\ UNCHANGED <<tasks, disk, created, runner, now, passes, loop, pipeline>>
    ELSE IF Lower(suffix) \notin allowed_extensions
    THEN /\ response' = HTTPException("process", 0, upload, 400, "Unsupported file type")
         /\ UNCHANGED <<tasks, disk, created, runner, now, passes, loop, pipeline>>
    ELSE /\ created < MaxJobs
         /\ LET task_id == created + 1 IN
            /\ created' = task_id
            \* await storage_manager.create_task(task_id)
            /\ taskDirs' = taskDirs \cup {task_id}
            /\ tasks' = create_task_entry(tasks, task_id, now)
            /\ passes' = <<>>
            \* with open(temp_file, "wb") as f: shutil.copyfileobj(file.file, f)
            /\ IF save = "saved"
               THEN /\ uploads' = uploads \cup {task_id}
                    \* background_tasks.add_task(process_document_task, ...)
                    /\ pc' = [pc EXCEPT ![task_id] = "queued"]
                    /\ response' = [op |-> "process", task_id |-> task_id,
                                    upload |-> upload, code |-> 200,
                                    detail |-> None,
                                    message |-> message(force_ocr, table_format),
                                    status |-> PENDING, error |-> None]
               ELSE /\ uploads' = IF save = "copy_raises" THEN uploads \cup {task_id}
                                                          ELSE uploads
                    /\ response' = HTTPException("process", 0, upload, 500,
                                                  "Error saving uploaded file")
                    /\ UNCHANGED pc
            /\ UNCHANGED <<zips, exc, now, loop, pipeline>>

\* ---------------------------------------------- process_document_task
\* Parameters of DocumentProcessor.process_document after self.
process_document_params == <<"file_path", "output_dir", "force_ocr">>

\* Python's binding of a call with npos positional arguments and the keyword
\* arguments kw to a function with the parameters params (no *args, **kwargs).
Binds(params, npos, kw) ==
    /\ npos <= Len(params)
    /\ \A k \in kw : \E i \in (npos + 1)..Len(params) : params[i] = k

\* processor.process_document(file_path, task_dir, force_ocr=..., table_format=...)
CallPositional == 2
CallKeywords == {"force_ocr", "table_format"}

\* str(e) of the TypeError a call that does not bind raises.
TypeErrorText == "process_document() got an unexpected keyword argument 'table_format'"

\* The runner without its first status update.
RunnerStart_SkipsProcessing(task_id) ==
    /\ pc[task_id] = "queued"
    /\ pc' = [pc EXCEPT ![task_id] = "call"]
    /\ response' = NoResponse
    /\ UNCHANGED <<tasks, disk, created, exc, now, passes, loop, pipeline>>

\* await storage_manager.update_task_status(task_id, TaskStatus.PROCESSING)
RunnerStart(task_id) ==
    /\ pc[task_id] = "queued"
    /\ tasks' = update_task_status(tasks, task_id, PROCESSING, None)
    /\ pc' = [pc EXCEPT ![task_id] = "call"]
    /\ response' = NoResponse
    /\ UNCHANGED <<disk, created, exc, now, passes, loop, pipeline>>

\* The runner with the archive written before the pipeline is called.
RunnerCall_ArchivesFirst(task_id) ==
    /\ pc[task_id] = "call"
    /\ zips' = zips \cup {task_id}
    /\ exc' = [exc EXCEPT ![task_id] = TypeErrorText]
    /\ pc' = [pc EXCEPT ![task_id] = "except"]
    /\ response' = NoResponse
    /\ UNCHANGED <<tasks, taskDirs, uploads, created, now, passes, loop, pipeline>>

\* task_dir = get_task_path(task_id); the call of processor.process_document:
\* its arguments do not bind, so the call raises before the pipeline is entered.
\* The statements after the call (make_archive, rmtree, the update to
\* COMPLETED) are reached from no state and have no action here.
RunnerCall(task_id) ==
    /\ pc[task_id] = "call"
    /\ ~Binds(process_document_params, CallPositional, CallKeywords)
    /\ exc' = [exc EXCEPT ![task_id] = TypeErrorText]
    /\ pc' = [pc EXCEPT ![task_id] = "except"]
    /\ response' = NoResponse
    /\ UNCHANGED <<tasks, disk, created, now, passes, loop, pipeline>>

\* except Exception as e: update_task_status(task_id, FAILED, error=str(e))
RunnerExcept(task_id) ==
    /\ pc[task_id] = "except"
    /\ tasks' = update_task_status(tasks, task_id, FAILED, exc[task_id])
    /\ exc' = [exc EXCEPT ![task_id] = None]
    /\ pc' = [pc EXCEPT ![task_id] = "finally"]
    /\ response' = NoResponse
    /\ UNCHANGED <<disk, created, now, passes, loop, pipeline>>

\* finally: if file_path.exists(): file_path.unlink()
RunnerFinally(task_id) ==
    /\ pc[task_id] = "finally"
    /\ uploads' = uploads \ {task_id}
    /\ pc' = [pc EXCEPT ![task_id] = "done"]
    /\ response' = NoResponse
    /\ UNCHANGED <<tasks, taskDirs, zips, created, exc, now, passes, loop, pipeline>>

\* ------------------------------------------- GET /documents/{id}/status
get_task_status_endpoint(task_id) ==
    /\ LET task_info == get_task_status(tasks, task_id) IN
       response' =
         IF task_info = <<>>
         THEN HTTPException("status", task_id, <<>>, 404, "Task not found")
         ELSE [op |-> "status", task_id |-> task_id, upload |-> <<>>, code |-> 200,
               detail |-> None, message |-> <<"Task is ", task_info[1].status>>,
               status |-> task_info[1].status, error |-> task_info[1].error]
    /\ UNCHANGED <<tasks, disk, created, runner, now, passes, loop, pipeline>>

\* download_result without the test of the status.
download_result_NoStatusCheck(task_id) ==
    /\ LET task_info == get_task_status(tasks, task_id) IN
       response' =
         IF task_info = <<>>
         THEN HTTPException("download", task_id, <<>>, 404, "Task not found")
         ELSE IF task_id \notin zips
         THEN HTTPException("download", task_id, <<>>, 404, "Result file not found")
         ELSE [op |-> "download", task_id |-> task_id, upload |-> <<>>, code |-> 200,
               detail |-> "application/zip", message |-> <<>>,
               status |-> None, error |-> None]
    /\ UNCHANGED <<tasks, disk, created, runner, now, passes, loop, pipeline>>

\* ----------------------------------------- GET /documents/{id}/download
download_result(task_id) ==
    /\ LET task_info == get_task_status(tasks, task_id) IN
       response' =
         IF task_info = <<>>
         THEN HTTPException("download", task_id, <<>>, 404, "Task not found")
         ELSE IF task_info[1].status # COMPLETED
         THEN HTTPException("download", task_id, <<>>, 400, "Task is not completed")
         ELSE IF task_id \notin zips
         THEN HTTPException("download", task_id, <<>>, 404, "Result file not found")
         ELSE [op |-> "download", task_id |-> task_id, upload |-> <<>>, code |-> 200,
               detail |-> "application/zip", message |-> <<>>,
               status |-> None, error |-> None]
    /\ UNCHANGED <<tasks, disk, created, runner, now, passes, loop, pipeline>>

\* --------------------------------------------------- cleanup_old_tasks
\* delete_task that forgets the job and leaves its directory.
delete_task_LeavesDirectory(st, task_id) ==
    [st EXCEPT !.tasks = delete_task_entry(st.tasks, task_id),
               !.zips = st.zips \ {task_id}]

\* delete_task that leaves the archive.
delete_task_LeavesArchive(st, task_id) ==
    [st EXCEPT !.tasks = delete_task_entry(st.tasks, task_id),
               !.taskDirs = st.taskDirs \ {task_id}]

\* delete_task: the registry and the disk after the call
delete_task(st, task_id) ==
    [tasks |-> delete_task_entry(st.tasks, task_id),
     taskDirs |-> st.taskDirs \ {task_id},
     zips |-> st.zips \ {task_id}]

\* A pass that deletes whatever is registered when it deletes, not the ids
\* it collected.
RECURSIVE delete_tasks_WholeRegistry(_, _)
delete_tasks_WholeRegistry(st, ids) ==
    IF st.tasks = <<>> THEN st
    ELSE LET task_id == CHOOSE i \in DOMAIN st.tasks : TRUE
         IN delete_tasks_WholeRegistry(delete_task(st, task_id), ids)

\* for task_id in tasks_to_remove: await self.delete_task(task_id)
RECURSIVE delete_tasks(_, _)
delete_tasks(st, ids) ==
    IF ids = <<>> THEN st
    ELSE delete_tasks(delete_task(st, Head(ids)), Tail(ids))

\* One eviction pass of the cleanup loop.  Neither the scan nor delete_task
\* suspends, so the pass is one step of the event loop.
cleanup_old_tasks ==
    LET tasks_to_remove == InOrder(Expired(tasks, now))
        st == delete_tasks([tasks |-> tasks, taskDirs |-> taskDirs, zips |-> zips],
                           tasks_to_remove)
    IN /\ tasks' = st.tasks
       /\ taskDirs' = st.taskDirs
       /\ zips' = st.zips
       \* logger.info(f"Cleaned up {len(tasks_to_remove)} old tasks")
       /\ passes' = LastTwo(Append(passes, Len(tasks_to_remove)))
       /\ response' = NoResponse
       /\ UNCHANGED <<uploads, created, runner, now, pipeline>>

\* The ids of a list that come before `task_id`.
Before(ids, task_id) ==
    SubSeq(ids, 1, (CHOOSE i \in 1..Len(ids) : ids[i] = task_id) - 1)

\* An eviction pass in which delete_task(raising) raises: shutil.rmtree raises
\* OSError and leaves the directory, and `del self.tasks[task_id]` is not
\* reached.  The ids before it in tasks_to_remove are deleted, the ids after
\* it are not, and the pass ends without its log line.  (No archive is ever
\* on disk, see RunnerCall, so zip_path.unlink() has nothing to raise on.)
cleanup_old_tasks_raises(raising) ==
    LET tasks_to_remove == InOrder(Expired(tasks, now)) IN
    /\ raising \in Expired(tasks, now)
    /\ raising \in taskDirs
    /\ LET st == delete_tasks([tasks |-> tasks, taskDirs |-> taskDirs, zips |-> zips],
                              Before(tasks_to_remove, raising))
       IN /\ tasks' = st.tasks
          /\ taskDirs' = st.taskDirs
          /\ zips' = st.zips
    /\ response' = NoResponse
    /\ UNCHANGED <<uploads, created, runner, now, passes, pipeline>>

\* ---------------------------------------------------- start_cleanup_task
\* The exceptions raised inside the loop: what an eviction pass raises, and
\* what Task.cancel() throws into the coroutine.
OSError == "OSError"
CancelledError == "CancelledError"

\* A handler that catches nothing.
except_Exception_CatchesNothing(e) == FALSE

\* A handler that catches the cancellation too (except BaseException).
except_Exception_CatchesCancelled(e) == TRUE

\* `except Exception as e`: asyncio.CancelledError derives from BaseException
\* (the module needs Python 3.9: asyncio.to_thread, tuple[Path, Path]).
except_Exception(e) == e # CancelledError

\* Where the loop is after exception e is raised at position `at`: inside the
\* try block ("pass", "sleep_3600") a caught exception leads to the handler's
\* sleep(300); anything else ends the task.
raised_in_loop(at, e) ==
    IF at \in {"pass", "sleep_3600"} /\ except_Exception(e) THEN "sleep_300"
    ELSE IF e = CancelledError THEN "cancelled"
    ELSE "failed"

\* One iteration of `while True`, from the point where the task waits (not
\* started yet, or in one of the two sleeps): the eviction pass, then the
\* sleep it reaches.  `runs` counts the passes modulo 2; `e` is the job
\* whose deletion raised in this pass (the path the OSError names), 0 when the
\* pass raised nothing.
start_cleanup_task ==
    \/ /\ cleanup_task.at \in {"created", "sleep_3600", "sleep_300"}
       /\ ~cleanup_task.must_cancel
       /\ cleanup_old_tasks
       /\ cleanup_task' = [cleanup_task EXCEPT !.at = "sleep_3600",
                                               !.runs = 1 - @,
                                               !.e = 0]
       /\ UNCHANGED lifespan
    \/ /\ cleanup_task.at \in {"created", "sleep_3600", "sleep_300"}
       /\ ~cleanup_task.must_cancel
       /\ \E raising \in JobIds :
             /\ cleanup_old_tasks_raises(raising)
             \* except Exception as e: logger.error(f"Error in cleanup task: {e}")
             /\ cleanup_task' = [cleanup_task EXCEPT
                                     !.at = raised_in_loop("pass", OSError),
                                     !.runs = 1 - @,
                                     !.e = raising]
       /\ UNCHANGED lifespan

\* lifespan after the yield: cleanup_task.cancel(), then `await cleanup_task`.
lifespan_cancel ==
    /\ lifespan = "serving"
    /\ lifespan' = "awaiting"
    /\ cleanup_task' = [cleanup_task EXCEPT !.must_cancel =
                            cleanup_task.at \in {"created", "sleep_3600", "sleep_300"}]
    /\ response' = NoResponse
    /\ UNCHANGED <<tasks, disk, created, runner, now, passes, pipeline>>

\* The event loop throws CancelledError into the task where it waits (a task
\* that has not started ends cancelled without running).
cleanup_task_cancelled ==
    /\ cleanup_task.must_cancel
    /\ cleanup_task' = [cleanup_task EXCEPT
                            !.must_cancel = FALSE,
                            !.at = IF @ = "created" THEN "cancelled"
                                   ELSE raised_in_loop(@, CancelledError)]
    /\ response' = NoResponse
    /\ UNCHANGED <<tasks, disk, created, runner, now, passes, lifespan, pipeline>>

\* `await cleanup_task` returns by raising what ended the task;
\* except asyncio.CancelledError: pass; the last log line.
lifespan_stopped ==
    /\ lifespan = "awaiting"
    /\ cleanup_task.at = "cancelled"
    /\ lifespan' = "stopped"
    /\ response' = NoResponse
    /\ UNCHANGED <<tasks, disk, created, runner, now, passes, cleanup_task, pipeline>>

\* -------------------------------- DocumentProcessor.process_document
\* Suffixes of the files the pipeline is applied to: one the engine reads as
\* it is, and the two legacy formats.
PipelineSuffixes == {".pdf", ".doc", ".xls"}

\* target_format of the bridge for a legacy suffix.
target_format(file_suffix) == IF file_suffix = ".doc" THEN ".docx" ELSE ".xlsx"

\* How subprocess.run of the bridge ends.
RunOutcomes == {"exit_0", "exit_nonzero", "timeout"}

\* The bridge that tests for its output file and not for the return code.
convert_legacy_office_format_IgnoresReturncode(run, exists) ==
    IF run = "timeout" THEN "Document conversion timed out (60s limit)"
    ELSE IF ~exists THEN "Converted file not found"
    ELSE None

\* _convert_legacy_office_format: the text of the RuntimeError it raises, or
\* None when it returns converted_path.  `exists` is converted_path.exists().
convert_legacy_office_format(run, exists) ==
    IF run = "timeout" THEN "Document conversion timed out (60s limit)"
    ELSE IF run = "exit_nonzero" THEN "Failed to convert"
    ELSE IF ~exists THEN "Converted file not found"
    ELSE None

\* Image references.  A reference is ![alt](path); its path is one of the
\* forms below followed by a file name.  Exported files are named 1, 2, ...;
\* uuid4() gives file n a name that no exported file has.
Forms == {"/out/document_artifacts/", "/out/images/", "images/", "document_artifacts/"}
ExportedNames == 1..MaxImages
uuid4(old_name) == MaxImages + old_name

\* The exported documents: one line of up to MaxRefs image references (with
\* text around them), the i-th with alt text i.
Documents ==
    UNION {[1..n -> Forms \X ExportedNames] : n \in 0..MaxRefs}

Ref(alt, form, name) == [alt |-> alt, form |-> form, name |-> name]

Line(document) ==
    [i \in 1..Len(document) |-> Ref(i, document[i][1], document[i][2])]

\* re.sub(r'!\[(.*?)\]\(.*/document_artifacts/OLD\)', r'![\1](images/NEW)', line):
\* the match starts at the first reference of the line and its greedy `.*`
\* runs to the last reference whose path is .../document_artifacts/OLD, so
\* everything from the first reference to that one becomes one reference.
sub_document_artifacts(line, old_name, new_name) ==
    LET hits == {k \in 1..Len(line) :
                    line[k].form = "/out/document_artifacts/" /\ line[k].name = old_name}
    IN IF hits = {} THEN line
       ELSE LET last == CHOOSE k \in hits : \A h \in hits : h <= k
            IN <<Ref(line[1].alt, "images/", new_name)>>
                   \o SubSeq(line, last + 1, Len(line))

\* re.sub with the pattern \(/[^)]*?/images/OLD\) (form = "/out/images/") or
\* \(images/OLD\) (form = "images/"): the lazy group gives back what it ran
\* over, so each reference of that form to OLD is rewritten where it is.
sub_images(line, form, old_name, new_name) ==
    [i \in 1..Len(line) |->
        IF line[i].form = form /\ line[i].name = old_name
        THEN Ref(line[i].alt, "images/", new_name)
        ELSE line[i]]

\* for old_name, new_name in filename_mapping.items(): the three re.sub calls
RECURSIVE fix_paths(_, _)
fix_paths(line, old_names) ==
    IF old_names = <<>> THEN line
    ELSE LET old_name == Head(old_names)
             new_name == uuid4(old_name)
         IN fix_paths(
                sub_images(
                    sub_images(
                        sub_document_artifacts(line, old_name, new_name),
                        "/out/images/", old_name, new_name),
                    "images/", old_name, new_name),
                Tail(old_names))

\* The orders in which artifacts_dir.iterdir() may list a set of files.
Orders(files) ==
    {q \in [1..Cardinality(files) -> files] :
        \A i, j \in 1..Cardinality(files) : i # j => q[i] # q[j]}

\* What an application of the pipeline leaves alone: the service.
service == <<tasks, disk, created, runner, now, passes, response, loop>>

\* The call, up to the test of the suffix.
DocumentProcessor_process_document(file_suffix) ==
    /\ pipeline.at = "not called"
    /\ pipeline' = [pipeline EXCEPT
                       !.file_suffix = file_suffix,
                       !.at = IF file_suffix \in {".doc", ".xls"} THEN "bridge"
                                                                   ELSE "convert"]
    /\ UNCHANGED service

\* converted_file = await self._convert_legacy_office_format(file_path, ...):
\* the tool ends in one of RunOutcomes, and has or has not written its output
\* file by then.
pipeline_bridge(run, written) ==
    /\ pipeline.at = "bridge"
    /\ LET e == convert_legacy_office_format(run, written) IN
       pipeline' = [pipeline EXCEPT
                       !.run = run,
                       !.written = written,
                       !.bridged_on_disk = written,
                       !.converted_file = IF e = None
                                          THEN target_format(pipeline.file_suffix)
                                          ELSE None,
                       !.raising = e,
                       !.at = IF e = None THEN "convert" ELSE "finally"]
    /\ UNCHANGED service

\* result = await asyncio.to_thread(converter.convert, str(file_path))
pipeline_convert(force_ocr, raises) ==
    /\ pipeline.at = "convert"
    /\ pipeline' = [pipeline EXCEPT
                       !.converter = IF force_ocr THEN "force_ocr_converter"
                                                  ELSE "converter",
                       !.raising = IF raises THEN "conversion failed" ELSE None,
                       !.at = IF raises THEN "finally" ELSE "export"]
    /\ UNCHANGED service

\* result.document.save_as_markdown(markdown_path, image_mode=REFERENCED): it
\* raises, or it writes document.md and, for a document with images, the
\* referenced files into document_artifacts.
pipeline_export(document, raises) ==
    /\ pipeline.at = "export"
    /\ IF raises
       THEN pipeline' = [pipeline EXCEPT !.raising = "export failed",
                                         !.at = "finally"]
       ELSE pipeline' = [pipeline EXCEPT
                            !.exported = TRUE,
                            !.source = Line(document),
                            !.markdown = Line(document),
                            !.artifacts_dir = document # <<>>,
                            !.artifacts = {document[i][2] : i \in 1..Len(document)},
                            !.at = "normalize"]
    /\ UNCHANGED service

\* if artifacts_dir.exists(): move every file to images/ under a new name,
\* remove the directory, rewrite the references of document.md.
pipeline_normalize(order) ==
    /\ pipeline.at = "normalize"
    /\ order \in Orders(pipeline.artifacts)
    /\ IF pipeline.artifacts_dir
       THEN pipeline' = [pipeline EXCEPT
                            !.filename_mapping = {<<f, uuid4(f)>> : f \in pipeline.artifacts},
                            !.images = {uuid4(f) : f \in pipeline.artifacts},
                            !.artifacts = {},
                            !.artifacts_dir = FALSE,
                            !.markdown = fix_paths(pipeline.markdown, order),
                            !.at = "finally"]
       ELSE pipeline' = [pipeline EXCEPT !.at = "finally"]
    /\ UNCHANGED service

\* finally: if converted_file and converted_file.exists(): converted_file.unlink(),
\* where a failing unlink is logged and passed over; then the call returns
\* or raises what was on its way out.
pipeline_finally(unlinked) ==
    /\ pipeline.at = "finally"
    /\ pipeline' = [pipeline EXCEPT
                       !.bridged_on_disk =
                           IF pipeline.converted_file # None /\ @ THEN ~unlinked ELSE @,
                       !.result = IF pipeline.raising = None THEN "returned"
                                                             ELSE pipeline.raising,
                       !.raising = None,
                       !.at = IF pipeline.raising = None THEN "returned" ELSE "raised"]
    /\ UNCHANGED service

\* One application of the pipeline, the service left as it starts.
Pipeline ==
    \/ \E file_suffix \in PipelineSuffixes :
          DocumentProcessor_process_document(file_suffix)
    \/ \E run \in RunOutcomes, written \in BOOLEAN : pipeline_bridge(run, written)
    \/ \E force_ocr \in BOOLEAN, raises \in BOOLEAN :
          pipeline_convert(force_ocr, raises)
    \/ \E document \in Documents, raises \in BOOLEAN :
          pipeline_export(document, raises)
    \/ \E order \in Orders(pipeline.artifacts) : pipeline_normalize(order)
    \/ \E unlinked \in BOOLEAN : pipeline_finally(unlinked)

PipelineSpec == Init /\ [][Pipeline]_vars

\* The form fields and the outcome of saving matter to accepted uploads only.
Upload ==
    \E file_size \in FileSizes, suffix \in Suffixes :
        IF file_size > max_size \/ Lower(suffix) \notin allowed_extensions
        THEN process_document(file_size, suffix, FALSE, "auto", "saved")
        ELSE \E force_ocr \in BOOLEAN, table_format \in TableFormat, save \in SaveOutcomes :
                process_document(file_size, suffix, force_ocr, table_format, save)

Runner ==
    \E task_id \in JobIds :
        \/ RunnerStart(task_id)
        \/ RunnerCall(task_id)
        \/ RunnerExcept(task_id)
        \/ RunnerFinally(task_id)

Query ==
    \E task_id \in JobIds :
        \/ get_task_status_endpoint(task_id)
        \/ download_result(task_id)

\* Spec follows the eviction passes and not the loop that starts them: a pass
\* may run in any state, and it succeeds or one of its deletions raises.
Eviction ==
    \/ cleanup_old_tasks /\ UNCHANGED loop
    \/ \E raising \in JobIds : cleanup_old_tasks_raises(raising) /\ UNCHANGED loop

Next == Upload \/ Runner \/ Query \/ Eviction \/ Tick

Spec == Init /\ [][Next]_vars

\* The cleanup loop and the shutdown of the application, with the requests
\* that give the passes something to evict: uploads that are accepted and
\* saved, which arrive while the application serves.  A sleep of the loop
\* ends, a pending cancellation is delivered and an awaited task that has
\* ended resumes its awaiter: the event loop guarantees these steps, the
\* shutdown itself may never come.
Serve ==
    /\ lifespan = "serving"
    /\ process_document(max_size, ".PDF", FALSE, "auto", "saved")

NextCleanup ==
    \/ Serve
    \/ Tick
    \/ start_cleanup_task
    \/ lifespan_cancel
    \/ cleanup_task_cancelled
    \/ lifespan_stopped

CleanupSpec ==
    /\ Init
    /\ [][NextCleanup]_vars
    /\ WF_vars(start_cleanup_task)
    /\ WF_vars(cleanup_task_cancelled)
    /\ WF_vars(lifespan_stopped)

\* ==================================================================== claims

\* The job identifiers generated so far.
Created == 1..created

\* The registry and the disk: what a rejected request must leave alone.
system == <<tasks, taskDirs, zips, uploads, created, pc, exc>>

\* A step of the status from s to t that the lifecycle allows.
StatusStep(s, t) ==
    \/ s = PENDING /\ t = PROCESSING
    \/ s = PROCESSING /\ t \in {COMPLETED, FAILED}

\* C1: in every step, the status of a registered job stays as it is or moves
\* PENDING -> PROCESSING or PROCESSING -> COMPLETED | FAILED, and an entry that
\* appears in the registry is PENDING under an identifier never used before.
C1_StatusMonotonic ==
    [][\A j \in JobIds :
         j \in DOMAIN tasks' =>
            IF j \in DOMAIN tasks
            THEN \/ tasks'[j].status = tasks[j].status
                 \/ StatusStep(tasks[j].status, tasks'[j].status)
            ELSE tasks'[j].status = PENDING /\ j > created]_vars

\* C1 witness: a registered job whose runner has ended holds a terminal status.
C1_Witness ==
    \E j \in DOMAIN tasks : pc[j] = "done" /\ tasks[j].status = FAILED

\* C3: a job created from a valid upload is COMPLETED, with its archive on
\* disk, once its runner has ended (checked for jobs still registered).
C3_EndsCompleted ==
    \A j \in DOMAIN tasks :
        pc[j] = "done" => tasks[j].status = COMPLETED /\ j \in zips

\* C4: a registered job whose runner has handled the exception is FAILED with
\* the exception's text as its error; every FAILED job of the registry, and
\* every FAILED status a status query answers, carries an error message; an
\* exception is pending only while the runner's handler is about to run.
C4_FailedHasError ==
    /\ \A j \in DOMAIN tasks :
          /\ pc[j] \in {"finally", "done"} =>
                tasks[j].status = FAILED /\ tasks[j].error = TypeErrorText
          /\ tasks[j].status = FAILED => Truthy(tasks[j].error)
    /\ \A j \in JobIds : exc[j] # None => pc[j] = "except"
    /\ response.op = "status" /\ response.status = FAILED => Truthy(response.error)

\* C4 witness: a status query answers FAILED with the text of the exception.
C4_Witness ==
    /\ response.op = "status"
    /\ response.status = FAILED
    /\ response.error = TypeErrorText

\* C5: once handling of a created job has ended (its runner is done, or the
\* create request ended without scheduling one), its temporary upload is not
\* on disk.
C5_UploadRemoved ==
    \A j \in Created : pc[j] \in {"none", "done"} => j \notin uploads

\* C6: a download answers the archive only for a job that is COMPLETED (and
\* whose archive is on disk); for a PENDING, PROCESSING or FAILED job it is
\* rejected as not completed, for an identifier not in the registry as not
\* found.
C6_DownloadOnlyCompleted ==
    response.op = "download" =>
        LET id == response.task_id IN
        /\ response.code = 200 =>
              id \in DOMAIN tasks /\ tasks[id].status = COMPLETED /\ id \in zips
        /\ id \in DOMAIN tasks /\ tasks[id].status \in {PENDING, PROCESSING, FAILED} =>
              response.code = 400 /\ response.detail = "Task is not completed"
        /\ id \notin DOMAIN tasks =>
              response.code = 404 /\ response.detail = "Task not found"

\* C6 witness: a download of a job in PROCESSING is rejected as not completed.
C6_Witness ==
    /\ response.op = "download"
    /\ response.code = 400
    /\ response.task_id \in DOMAIN tasks
    /\ tasks[response.task_id].status = PROCESSING

\* The extensions an upload may have, as the interface states them.
AcceptedExtensions == {".pdf", ".docx", ".doc", ".xlsx", ".xls", ".jpg", ".jpeg", ".png"}

\* An upload <<file_size, suffix, save>> within the size limit and with an
\* accepted extension (in any case of letters).
ValidUpload(u) == u[1] <= max_size /\ Lower(u[2]) \in AcceptedExtensions

\* C7: a create request whose file exceeds the maximum size or whose
\* extension is not accepted is answered with 413 or 400 in the same step,
\* which changes neither the registry, nor the disk, nor the runners.
C7_RejectedUploadChangesNothing ==
    [][response'.op = "process" /\ ~ValidUpload(response'.upload) =>
          /\ response'.code = IF response'.upload[1] > max_size THEN 413 ELSE 400
          /\ response'.task_id = 0
          /\ system' = system]_vars

\* C7 witness: a ".txt" upload is rejected while a job is registered.
C7_Witness ==
    /\ response.op = "process"
    /\ response.upload[2] = ".txt"
    /\ response.code = 400
    /\ tasks # <<>>

PassStep == passes' # passes /\ passes' # <<>>

\* C9 as stated: a pass at time now evicts the job created at exactly
\* now - TTL and retains the job created one unit of the clock later.
C9_CutoffInclusive ==
    [][PassStep =>
          \A j \in DOMAIN tasks :
              /\ tasks[j].created_at = now - Ttl => j \notin DOMAIN tasks'
              /\ tasks[j].created_at = now - Ttl + 1 => j \in DOMAIN tasks']_vars

\* C9 amended: the cutoff is exclusive.  A pass at time now retains the job
\* created at exactly now - TTL (and every younger job) and evicts every job
\* created before now - TTL.
C9_CutoffExclusive ==
    [][PassStep =>
          \A j \in DOMAIN tasks :
              /\ tasks[j].created_at >= now - Ttl => j \in DOMAIN tasks'
              /\ tasks[j].created_at < now - Ttl =>
                    j \notin DOMAIN tasks' /\ j \notin taskDirs' /\ j \notin zips']_vars

\* C9 witness: a pass has just run (no creation, no tick since), it evicted
\* a job, and a job created at exactly now - TTL is still registered.
C9_Witness ==
    /\ passes # <<>>
    /\ passes[Len(passes)] > 0
    /\ \E j \in DOMAIN tasks : tasks[j].created_at = now - Ttl

\* C10: an eviction pass that follows another one, with no job created and
\* no tick of the clock in between, evicts zero jobs and leaves the registry
\* and the disk as they are.
C10_SecondPassEvictsNothing ==
    [][passes # <<>> /\ PassStep =>
          /\ passes'[Len(passes')] = 0
          /\ tasks' = tasks
          /\ disk' = disk]_vars

\* C10 witness: two passes in succession, the first of which evicted a job.
C10_Witness ==
    Len(passes) = 2 /\ passes[1] > 0 /\ passes[2] = 0

\* The calls of update_task_status that process_document_task makes:
\* <<status, error>>.
StatusUpdates ==
    {<<PROCESSING, None>>, <<COMPLETED, None>>, <<FAILED, TypeErrorText>>}

\* C11: each call of update_task_status the runner makes, on an identifier
\* that is not in the registry (never created, or evicted while its runner
\* was in flight), returns the registry as it is; the runner step that makes the call goes on to its next
\* statement and leaves the registry unchanged, so the entry is not created
\* again; and a status query for an identifier that is not registered answers
\* 404 "Task not found".
C11_UpdateOfAbsentIsNoOp ==
    [][/\ \A j \in JobIds \ DOMAIN tasks :
             /\ \A u \in StatusUpdates :
                   update_task_status(tasks, j, u[1], u[2]) = tasks
             /\ pc[j] \in {"queued", "except"} /\ pc'[j] # pc[j] =>
                   /\ pc'[j] = IF pc[j] = "queued" THEN "call" ELSE "finally"
                   /\ tasks' = tasks
                   /\ get_task_status(tasks', j) = <<>>
       /\ response'.op = "status" /\ response'.task_id \notin DOMAIN tasks' =>
             response'.code = 404 /\ response'.detail = "Task not found"]_vars

\* C11 witness: a job has been evicted while its runner is in flight,
\* after the runner's first status update and before its second, and a
\* status query for it has just answered not found.
C11_Witness ==
    \E j \in Created :
        /\ j \notin DOMAIN tasks
        /\ pc[j] = "except"
        /\ response.op = "status"
        /\ response.task_id = j
        /\ response.code = 404

\* C12: an identifier has a task directory or an archive on disk exactly
\* when it has a registry entry.
C12_RegistryMatchesDisk ==
    \A j \in JobIds : (j \in taskDirs \/ j \in zips) <=> j \in DOMAIN tasks

\* C12 witness: an eviction pass has removed one job, entry and directory,
\* while the runner of another, registered with its directory, is in flight.
C12_Witness ==
    \E j \in DOMAIN tasks, k \in Created \ DOMAIN tasks :
        /\ j \in taskDirs
        /\ pc[j] \in {"call", "except"}
        /\ k \notin taskDirs
        /\ k \notin zips

\* The cleanup task waits (it has not run yet, or it sleeps) and no
\* cancellation is pending.
LoopWaits ==
    /\ cleanup_task.at \in {"created", "sleep_3600", "sleep_300"}
    /\ ~cleanup_task.must_cancel

\* C13: the cleanup task never ends because a pass raised; a pass that leaves
\* an expired job behind (one of its deletions raised) is followed by the
\* sleep of 300 seconds, every other pass by the sleep of 3600 seconds; and
\* from wherever the loop waits, a further pass runs unless the loop is
\* cancelled first.
C13_PassErrorBacksOff ==
    /\ [](cleanup_task.at # "failed")
    /\ [][cleanup_task'.runs # cleanup_task.runs =>
             cleanup_task'.at = IF Expired(tasks', now') # {} THEN "sleep_300"
                                                              ELSE "sleep_3600"]_vars
    /\ \A b \in {0, 1} :
          (LoopWaits /\ cleanup_task.runs = b) ~>
              (cleanup_task.runs # b \/ ~LoopWaits)

\* C13 witness: a pass has raised, the job whose deletion raised is still
\* registered and expired, and the loop is in its sleep of 300 seconds.
C13_Witness ==
    /\ cleanup_task.at = "sleep_300"
    /\ ~cleanup_task.must_cancel
    /\ Expired(tasks, now) # {}

\* C20: once the lifespan has called cancel(), no eviction pass starts (the
\* count of passes, the registry and the disk stay as they are) and the loop
\* stays where it is until it ends cancelled: it never enters the back-off
\* sleep of an eviction error; the lifespan stops only after the task has
\* ended cancelled, and once it awaits the task it does stop.
C20_CancelEndsLoop ==
    /\ [][lifespan # "serving" =>
             /\ cleanup_task'.runs = cleanup_task.runs
             /\ cleanup_task'.at \in {cleanup_task.at, "cancelled"}
             /\ tasks' = tasks
             /\ disk' = disk]_vars
    /\ [](lifespan = "stopped" =>
             cleanup_task.at = "cancelled" /\ ~cleanup_task.must_cancel)
    /\ (lifespan = "awaiting") ~> (lifespan = "stopped")

\* C20 witness: the application has stopped with the loop cancelled, after
\* the loop ran a pass, and a job that has expired stays unevicted.
C20_Witness ==
    /\ lifespan = "stopped"
    /\ cleanup_task.at = "cancelled"
    /\ cleanup_task.runs = 1
    /\ Expired(tasks, now) # {}

\* The registry and the disk with the directory and the archive of task_id
\* present (TRUE) or missing (FALSE), everything else as it is.
StoreWith(task_id, dir, zip) ==
    [tasks |-> tasks,
     taskDirs |-> IF dir THEN taskDirs \cup {task_id} ELSE taskDirs \ {task_id},
     zips |-> IF zip THEN zips \cup {task_id} ELSE zips \ {task_id}]

\* C16: delete_task(id), with the directory, the archive and the registry
\* entry of id each present or missing, leaves none of the three, leaves
\* every other job's entry, directory and archive as they are, and a second
\* delete_task(id) changes nothing.
C16_DeleteIdempotent ==
    \A task_id \in JobIds, dir \in BOOLEAN, zip \in BOOLEAN :
        LET st == StoreWith(task_id, dir, zip)
            once == delete_task(st, task_id)
        IN /\ task_id \notin DOMAIN once.tasks
           /\ task_id \notin once.taskDirs
           /\ task_id \notin once.zips
           /\ once.taskDirs = st.taskDirs \ {task_id}
           /\ once.zips = st.zips \ {task_id}
           /\ DOMAIN once.tasks = DOMAIN st.tasks \ {task_id}
           /\ \A k \in DOMAIN once.tasks : once.tasks[k] = st.tasks[k]
           /\ delete_task(once, task_id) = once

\* C16 witness: a pass has just deleted a job (entry, directory and archive
\* are gone) while another job is registered with its directory.
C16_Witness ==
    /\ passes # <<>>
    /\ passes[Len(passes)] > 0
    /\ \E j \in Created, k \in DOMAIN tasks :
          /\ j \notin DOMAIN tasks
          /\ j \notin taskDirs
          /\ j \notin zips
          /\ k \in taskDirs

\* A step that removes entries from the registry: an eviction pass, whether
\* it ends or one of its deletions raises.
Evicts == DOMAIN tasks' # DOMAIN tasks /\ DOMAIN tasks' \subseteq DOMAIN tasks

\* C17: a pass deletes only identifiers that its scan of the registry, made
\* before the first deletion, found older than the TTL; a pass that ends
\* deletes all of them; a job whose age is below the TTL keeps its entry,
\* unchanged, and its directory, whatever the runners have written to the
\* registry before the pass.
C17_PassDeletesSnapshot ==
    [][/\ Evicts => DOMAIN tasks \ DOMAIN tasks' \subseteq Expired(tasks, now)
       /\ PassStep => DOMAIN tasks' = DOMAIN tasks \ Expired(tasks, now)
       /\ Evicts \/ PassStep =>
             \A j \in DOMAIN tasks :
                 now - tasks[j].created_at < Ttl =>
                     /\ j \in DOMAIN tasks'
                     /\ tasks'[j] = tasks[j]
                     /\ j \in taskDirs']_vars

\* C17 witness: a pass has evicted a job while a job created after the
\* clock last advanced, its runner in flight, is registered.
C17_Witness ==
    /\ passes # <<>>
    /\ passes[Len(passes)] > 0
    /\ \E j \in DOMAIN tasks :
          /\ now - tasks[j].created_at < Ttl
          /\ pc[j] \in {"call", "except"}
          /\ tasks[j].status = PROCESSING

\* C19: in every step, a registered job keeps its creation time and its
\* path; a step that changes a job's entry is a status update of that job's
\* runner, it changes the status and, when the runner passes an error text,
\* the error, and it changes no other job's entry and registers or removes
\* no job.
C19_UpdateTouchesOnlyItsJob ==
    [][\A j \in DOMAIN tasks \cap DOMAIN tasks' :
          /\ tasks'[j].created_at = tasks[j].created_at
          /\ tasks'[j].path = tasks[j].path
          /\ tasks'[j] # tasks[j] =>
                /\ pc[j] \in {"queued", "except"}
                /\ pc'[j] # pc[j]
                /\ tasks'[j].error = IF Truthy(exc[j]) THEN exc[j] ELSE tasks[j].error
                /\ DOMAIN tasks' = DOMAIN tasks
                /\ \A k \in DOMAIN tasks \ {j} : tasks'[k] = tasks[k]]_vars

\* C19 witness: of two registered jobs created at different times, one has
\* been updated to FAILED with its error and the other is as it was created.
C19_Witness ==
    \E j \in DOMAIN tasks, k \in DOMAIN tasks :
        /\ tasks[j].status = FAILED
        /\ tasks[j].error = TypeErrorText
        /\ tasks[k] = [status |-> PENDING, created_at |-> tasks[k].created_at,
                       path |-> k, error |-> None]
        /\ tasks[j].created_at # tasks[k].created_at
        /\ tasks[j].created_at # now

\* The call of the pipeline has ended, for a legacy input.
LegacyEnded ==
    /\ pipeline.at \in {"returned", "raised"}
    /\ pipeline.file_suffix \in {".doc", ".xls"}

\* C14: once the pipeline has ended for a .doc or .xls input, the bridged
\* .docx or .xlsx file is not on disk, whether the bridge succeeded, exited
\* non-zero or timed out, and whether the later steps succeeded or failed.
C14_BridgedFileRemoved ==
    LegacyEnded => ~pipeline.bridged_on_disk

\* C15: after normalization of a document with image references, document.md
\* has a reference for each reference exported, in the same place and with
\* the same alt text, whose path is images/<new name of its own file>, a file
\* that is in images/; so no reference into document_artifacts remains.
C15_ReferencesResolve ==
    pipeline.at = "returned" /\ pipeline.source # <<>> =>
        /\ Len(pipeline.markdown) = Len(pipeline.source)
        /\ \A i \in 1..Len(pipeline.markdown) :
              /\ pipeline.markdown[i] =
                     Ref(pipeline.source[i].alt, "images/", uuid4(pipeline.source[i].name))
              /\ pipeline.markdown[i].name \in pipeline.images

\* The bridge failed: non-zero exit, timeout, or no output file.
BridgeFailed ==
    \/ pipeline.run \in {"exit_nonzero", "timeout"}
    \/ pipeline.run = "exit_0" /\ ~pipeline.written

\* The text of the error each failure of the bridge is reported with.
BridgeErrorText ==
    CASE pipeline.run = "timeout" -> "Document conversion timed out (60s limit)"
      [] pipeline.run = "exit_nonzero" -> "Failed to convert"
      [] OTHER -> "Converted file not found"

\* C18: when the bridge fails, no converter has been or is invoked and no
\* document is exported; the call goes through its finally clause and raises
\* the bridge's error, which the runner's handler records as FAILED with
\* that text.
C18_BridgeFailureStops ==
    BridgeFailed =>
        /\ pipeline.converter = None
        /\ ~pipeline.exported
        /\ pipeline.converted_file = None
        /\ pipeline.at \in {"finally", "raised"}
        /\ pipeline.at = "finally" => pipeline.raising = BridgeErrorText
        /\ pipeline.at = "raised" =>
              /\ pipeline.result = BridgeErrorText
              /\ LET t == update_task_status(create_task_entry(<<>>, 1, 0), 1,
                                             FAILED, pipeline.result)
                 IN t[1].status = FAILED /\ t[1].error = BridgeErrorText

\* C18 witness: the bridge exited non-zero after writing an output file, and
\* the call has raised.
C18_Witness ==
    /\ pipeline.at = "raised"
    /\ pipeline.run = "exit_nonzero"
    /\ pipeline.written

\* The jobs whose call of the pipeline has raised: the runner is in its
\* handler or past it.
PipelineRaised == {j \in JobIds : pc[j] \in {"except", "finally", "done"}}

\* C21: no archive is on disk for a job whose call of the pipeline raised,
\* from the raise on (when the handler marks the job FAILED and at every later
\* time), nor for any job the registry holds as FAILED; and no step writes an
\* archive for a job whose runner has not got past the call of the pipeline.
C21_NoArchiveUnlessPipelineReturned ==
    /\ [](\A j \in PipelineRaised : j \notin zips)
    /\ [](\A j \in DOMAIN tasks : tasks[j].status = FAILED => j \notin zips)
    /\ [][\A j \in JobIds :
            j \in zips' \ zips => pc[j] \notin {"none", "queued", "call"}]_vars

\* C21 witness: a job that became FAILED because its call of the pipeline
\* raised is still registered at a later time, its runner done, and has no
\* archive.
C21_Witness ==
    \E j \in DOMAIN tasks :
        /\ tasks[j].status = FAILED
        /\ tasks[j].error = TypeErrorText
        /\ pc[j] = "done"
        /\ now > tasks[j].created_at
        /\ j \notin zips

\* C22: every job of the registry has been handed to the runner: once the
\* create request has returned (the handler is one step), the job's runner is
\* scheduled or has run.  A registered job without a runner stays PENDING until
\* it is evicted, since only the runner updates the status.
C22_RegisteredJobHasRunner ==
    \A j \in DOMAIN tasks : pc[j] # "none"

\* C24: while the cleanup loop is not cancelled, a registered job older than
\* the TTL whose own deletion never fails is eventually evicted (entry,
\* directory and archive gone), also when the deletion of another expired job
\* fails in the pass that should evict it.
C24_ExpiredEventuallyEvicted ==
    \A j \in JobIds :
        [](cleanup_task.e # j) =>
            ((j \in Expired(tasks, now))
                ~> (\/ j \notin DOMAIN tasks /\ j \notin taskDirs /\ j \notin zips
                    \/ lifespan # "serving"))


====
